---- MODULE Spec2Model ----
(***************************************************************************)
(* Model of InteractiveGPT_PDF_API_Call.py: a Streamlit page that extracts *)
(* the text of an uploaded PDF and answers questions about it through a    *)
(* remote chat-completion endpoint.                                        *)
(*                                                                         *)
(* Streamlit re-executes the script (main) once per widget event.  The     *)
(* widgets' values (token, uploaded file) and st.session_state (messages,  *)
(* pdf_text) persist between runs; the button and the chat input deliver   *)
(* a value only to the run their event starts, and they can only be used   *)
(* if the previous run got far enough to render them.                      *)
(*                                                                         *)
(* Strings are sequences of tokens: a token is a character of the small    *)
(* alphabet, the line break NL, or a literal chunk of the source text.     *)
(***************************************************************************)
EXTENDS Integers, Sequences, FiniteSets, TLC

\* ---------------------------------------------------------------- bounds
MaxPages == 2
MaxTurns == 4
MaxChoices == 2

\* ------------------------------------------------------------ input sets
NL == "NL"
PageTexts == {<<>>, <<"a">>}
Questions == {<<"q1">>, <<"q2">>}
ReplyTexts == {<<"r">>, <<"s">>}
ErrDescs == {<<"network">>, <<"auth">>}
Tokens == {<<>>, <<"tok">>}

SeqsUpTo(S, n) == UNION {[1..k -> S] : k \in 0..n}

\* A page of a parsed PDF: page.extract_text() returns text or raises.
Pages == [raises : {FALSE}, text : PageTexts] \cup [raises : {TRUE}, text : {<<>>}]

\* The value of the file uploader: nothing, a blob PdfReader rejects, or a
\* parseable PDF with its pages.
NoFile == [present |-> FALSE, parseable |-> FALSE, pages |-> <<>>]
Files ==
  [present : {TRUE}, parseable : {FALSE}, pages : {<<>>}]
    \cup [present : {TRUE}, parseable : {TRUE}, pages : SeqsUpTo(Pages, MaxPages)]

\* What client.chat.completions.create does: raises, or returns a response
\* with a (possibly empty) list of completions.
NoResponse == [received |-> FALSE, raised |-> FALSE, err |-> <<>>, choices |-> <<>>]
Responses ==
  [received : {TRUE}, raised : {TRUE}, err : ErrDescs, choices : {<<>>}]
    \cup [received : {TRUE}, raised : {FALSE}, err : {<<>>},
          choices : SeqsUpTo(ReplyTexts, MaxChoices)]

VARIABLES
  messages,         \* st.session_state.messages
  pdf_text,         \* st.session_state.pdf_text
  token,            \* value of the token text input
  uploaded_file,    \* value of the file uploader
  reached,          \* where the last run of main() stopped
  pc,               \* "idle", or "calling" while the run waits in create()
  request,          \* messages= argument of the create() call of this run
  calls,            \* number of create() calls issued by this run
  tmp_file_exists,  \* the temporary file of the last extraction is on disk
  user_input,       \* value of st.chat_input in this run (<<>> is None)
  response,         \* what create() did in this run
  trigger           \* the widget event that started this run

vars == <<messages, pdf_text, token, uploaded_file, reached, pc, request, calls,
          tmp_file_exists, user_input, response, trigger>>

\* ------------------------------------------------- extract_text_from_pdf
RECURSIVE PageLoop(_, _)
\* for page in pdf_reader.pages: text += page.extract_text() + "\n"
PageLoop(pages, text) ==
  IF pages = <<>> THEN [raised |-> FALSE, text |-> text]
  ELSE IF Head(pages).raises THEN [raised |-> TRUE, text |-> <<>>]
  ELSE PageLoop(Tail(pages), text \o Head(pages).text \o <<NL>>)

\* The temporary file is created with delete=False; os.unlink runs only when
\* the with-block was left without an exception.
extract_text_from_pdf(pdf_file) ==
  IF ~pdf_file.parseable
    THEN [raised |-> TRUE, text |-> <<>>, tmp_exists |-> TRUE]
    ELSE LET loop == PageLoop(pdf_file.pages, <<>>) IN
         IF loop.raised
           THEN [raised |-> TRUE, text |-> <<>>, tmp_exists |-> TRUE]
           ELSE [raised |-> FALSE, text |-> loop.text, tmp_exists |-> FALSE]

\* ------------------------------------------------------ get_gpt_response
system_message(context) == <<"SYS_PRE">> \o context \o <<"SYS_POST">>

Turn(role, content) == [role |-> role, content |-> content]

\* Variant of RequestMessages that puts the instruction after the history.
RequestMessages_system_last(msgs, context) ==
  msgs \o <<Turn("system", system_message(context))>>

\* messages=[{"role": "system", "content": system_message}, *messages]
RequestMessages(msgs, context) ==
  <<Turn("system", system_message(context))>> \o msgs

\* f"Error: {str(e)}"
ErrorString(desc) == <<"Error: ">> \o desc

\* Variants of get_gpt_response with a plausible slip: the last completion in
\* place of the first; an except clause that misses IndexError; no except
\* clause for the exception create() raises.
get_gpt_response_last(resp) ==
  IF resp.raised THEN [raised |-> FALSE, value |-> ErrorString(resp.err)]
  ELSE IF resp.choices = <<>> THEN [raised |-> FALSE, value |-> ErrorString(<<"index">>)]
  ELSE [raised |-> FALSE, value |-> resp.choices[Len(resp.choices)]]

get_gpt_response_uncaught(resp) ==
  IF resp.raised THEN [raised |-> FALSE, value |-> ErrorString(resp.err)]
  ELSE IF resp.choices = <<>> THEN [raised |-> TRUE, value |-> <<>>]
  ELSE [raised |-> FALSE, value |-> resp.choices[1]]

get_gpt_response_reraise(resp) ==
  IF resp.raised THEN [raised |-> TRUE, value |-> <<>>]
  ELSE IF resp.choices = <<>> THEN [raised |-> FALSE, value |-> ErrorString(<<"index">>)]
  ELSE [raised |-> FALSE, value |-> resp.choices[1]]

\* The handling of create()'s outcome: response.choices[0].message.content,
\* or the except clause.  An empty choices list raises IndexError inside try.
get_gpt_response(resp) ==
  IF resp.raised THEN [raised |-> FALSE, value |-> ErrorString(resp.err)]
  ELSE IF resp.choices = <<>> THEN [raised |-> FALSE, value |-> ErrorString(<<"index">>)]
  ELSE [raised |-> FALSE, value |-> resp.choices[1]]

\* ------------------------------------------------------------------ main
\* if not token: ... return
TokenGate(tok) == tok = <<>>

\* Variant of PdfGate that never stops the run.
PdfGate_open(text) == FALSE

\* if not st.session_state.pdf_text: ... return
PdfGate(text) == text = <<>>

\* Variant of clear_chat that also drops the document text.
clear_chat_all(msgs, text) == [messages |-> <<>>, pdf_text |-> <<>>]

\* if st.button("Clear Chat"): st.session_state.messages = []; st.rerun()
clear_chat(msgs, text) == [messages |-> <<>>, pdf_text |-> text]

\* Variant of UploadStep that stores the empty string when extraction raises.
UploadStep_reset(file, text, tmp) ==
  IF ~file.present THEN [raised |-> FALSE, pdf_text |-> text, tmp_exists |-> tmp]
  ELSE LET ex == extract_text_from_pdf(file) IN
       [raised |-> ex.raised,
        pdf_text |-> ex.text,
        tmp_exists |-> ex.tmp_exists]

\* if uploaded_file: st.session_state.pdf_text = extract_text_from_pdf(...)
UploadStep(file, text, tmp) ==
  IF ~file.present THEN [raised |-> FALSE, pdf_text |-> text, tmp_exists |-> tmp]
  ELSE LET ex == extract_text_from_pdf(file) IN
       [raised |-> ex.raised,
        pdf_text |-> IF ex.raised THEN text ELSE ex.text,
        tmp_exists |-> ex.tmp_exists]

\* st.session_state.messages.append({"role": "user", "content": user_input})
AppendUser(msgs, input) == Append(msgs, Turn("user", input))

\* st.session_state.messages.append({"role": "assistant", "content": response})
AppendAssistant(msgs, content) == Append(msgs, Turn("assistant", content))

\* One run of the script up to its end or to the blocking create() call.
\* A click on Clear Chat empties the messages and st.rerun() runs the script
\* again with the same widget values and the button released.
main(tok, file, clicked, input) ==
  LET up == UploadStep(file, pdf_text, tmp_file_exists)
      cl == IF clicked THEN clear_chat(messages, up.pdf_text)
                       ELSE [messages |-> messages, pdf_text |-> up.pdf_text]
      re == IF clicked THEN UploadStep(file, cl.pdf_text, up.tmp_exists) ELSE up
  IN /\ token' = tok
     /\ uploaded_file' = file
     /\ user_input' = input
     /\ response' = NoResponse
     /\ IF up.raised
          THEN /\ pdf_text' = up.pdf_text
               /\ tmp_file_exists' = up.tmp_exists
               /\ messages' = messages
               /\ reached' = "extract_raised"
               /\ pc' = "idle" /\ request' = <<>> /\ calls' = 0
          ELSE /\ pdf_text' = re.pdf_text
               /\ tmp_file_exists' = re.tmp_exists
               /\ IF TokenGate(tok)
                    THEN /\ messages' = cl.messages
                         /\ reached' = "no_token"
                         /\ pc' = "idle" /\ request' = <<>> /\ calls' = 0
                  ELSE IF PdfGate(re.pdf_text)
                    THEN /\ messages' = cl.messages
                         /\ reached' = "no_pdf"
                         /\ pc' = "idle" /\ request' = <<>> /\ calls' = 0
                  ELSE IF input # <<>>
                    THEN /\ messages' = AppendUser(cl.messages, input)
                         /\ request' = RequestMessages(messages', re.pdf_text)
                         /\ calls' = 1
                         /\ reached' = "chat"
                         /\ pc' = "calling"
                  ELSE /\ messages' = cl.messages
                       /\ reached' = "chat"
                       /\ pc' = "idle" /\ request' = <<>> /\ calls' = 0

\* --------------------------------------------------------------- actions
\* The first run of a new session: no token, no file.
Init ==
  /\ messages = <<>>
  /\ pdf_text = <<>>
  /\ token = <<>>
  /\ uploaded_file = NoFile
  /\ reached = "no_token"
  /\ pc = "idle"
  /\ request = <<>>
  /\ calls = 0
  /\ tmp_file_exists = FALSE
  /\ user_input = <<>>
  /\ response = NoResponse
  /\ trigger = "load"

\* The operator edits the token field.
SetToken ==
  /\ pc = "idle"
  /\ \E t \in Tokens :
       /\ t # token
       /\ main(t, uploaded_file, FALSE, <<>>)
  /\ trigger' = "token"

\* The operator puts a file into the uploader, replaces it or removes it.
Upload ==
  /\ pc = "idle"
  /\ \E f \in Files \cup {NoFile} :
       /\ f # uploaded_file
       /\ main(token, f, FALSE, <<>>)
  /\ trigger' = "upload"

\* The operator clicks Clear Chat; the button exists when the last run got
\* past the upload step.
ClearChat ==
  /\ pc = "idle"
  /\ reached # "extract_raised"
  /\ main(token, uploaded_file, TRUE, <<>>)
  /\ trigger' = "clear"

\* The operator submits a question; the chat input exists when the last run
\* reached it.
Ask ==
  /\ pc = "idle"
  /\ reached = "chat"
  /\ Len(messages) + 2 <= MaxTurns
  /\ \E q \in Questions : main(token, uploaded_file, FALSE, q)
  /\ trigger' = "submit"

\* create() returns or raises; the run appends the reply and ends.
Respond ==
  /\ pc = "calling"
  /\ \E resp \in Responses :
       LET r == get_gpt_response(resp) IN
       /\ response' = resp
       /\ messages' = IF r.raised THEN messages ELSE AppendAssistant(messages, r.value)
  /\ pc' = "idle"
  /\ UNCHANGED <<pdf_text, token, uploaded_file, reached, request, calls,
                 tmp_file_exists, user_input, trigger>>

Next == SetToken \/ Upload \/ ClearChat \/ Ask \/ Respond

Spec == Init /\ [][Next]_vars

TypeOK ==
  /\ pc \in {"idle", "calling"}
  /\ reached \in {"extract_raised", "no_token", "no_pdf", "chat"}
  /\ token \in Tokens
  /\ uploaded_file \in Files \cup {NoFile}
  /\ calls \in 0..1
  /\ Len(messages) <= MaxTurns
\* ---------------------------------------------------------------- claims
Success(resp) == resp.received /\ ~resp.raised /\ resp.choices # <<>>
Failed(resp) == resp.received /\ (resp.raised \/ resp.choices = <<>>)
Last(s) == s[Len(s)]
StartsWithError(s) == s # <<>> /\ Head(s) = "Error: "

\* The pages of f all yield text, and all of it is empty (or non-empty).
AllPagesEmpty(f) ==
  /\ f.present /\ f.parseable
  /\ \A i \in 1..Len(f.pages) : ~f.pages[i].raises /\ f.pages[i].text = <<>>
AllPagesText(f) ==
  /\ f.present /\ f.parseable /\ Len(f.pages) >= 1
  /\ \A i \in 1..Len(f.pages) : ~f.pages[i].raises /\ f.pages[i].text # <<>>

RECURSIVE JoinLines(_)
\* t1 NL t2 NL ... NL tN: a line break between consecutive pages only.
JoinLines(pages) ==
  IF Len(pages) = 1 THEN pages[1].text
  ELSE pages[1].text \o <<NL>> \o JoinLines(Tail(pages))

\* The turns alternate user, assistant, ... from a user turn.
Alternates(msgs) ==
  /\ Len(msgs) % 2 = 0
  /\ \A i \in 1..Len(msgs) :
       msgs[i].role = (IF i % 2 = 1 THEN "user" ELSE "assistant")

\* Extraction of f succeeds with at least one page, hence one line break.
ExtractsNonEmpty(f) ==
  /\ f.present /\ f.parseable /\ Len(f.pages) >= 1
  /\ \A i \in 1..Len(f.pages) : ~f.pages[i].raises

\* C1: a run that leaves pdf_text empty after its upload step issues no
\* create() call and appends no turn (it may only empty the turns), whatever
\* the token and the widget event are.
C1_NoRequestWithoutDocument ==
  [][pdf_text' = <<>> =>
       /\ pc' = "idle" /\ calls' = 0 /\ request' = <<>>
       /\ (messages' = messages \/ messages' = <<>>)]_vars

C1_Witness ==
  /\ pdf_text = <<>> /\ token # <<>> /\ uploaded_file.present
  /\ reached = "no_pdf" /\ messages # <<>>

\* C2: a question appends the user turn holding it, and a successful reply
\* then appends the assistant turn holding the first completion's text; the
\* earlier turns stay as they were.
C2_SuccessAppendsUserThenAssistant ==
  [][/\ (pc = "idle" /\ pc' = "calling") =>
          /\ user_input' \in Questions
          /\ messages' = messages \o <<Turn("user", user_input')>>
     /\ (pc = "calling" /\ pc' = "idle" /\ Success(response')) =>
          /\ Last(messages) = Turn("user", user_input)
          /\ messages' = messages \o <<Turn("assistant", response'.choices[1])>>]_vars

C2_Witness ==
  /\ pc = "idle" /\ trigger = "submit" /\ Success(response)
  /\ Len(response.choices) = 2 /\ response.choices[1] # response.choices[2]
  /\ Len(messages) = 4

\* C3: when create() raises or returns no completion, the run still ends
\* normally with exactly one more turn, an assistant turn after the user turn
\* whose content starts with "Error:", and the chat input stays available.
C3_FailureAppendsErrorTurn ==
  [][(pc = "calling" /\ pc' = "idle" /\ Failed(response')) =>
       /\ Len(messages') = Len(messages) + 1
       /\ SubSeq(messages', 1, Len(messages)) = messages
       /\ Last(messages).role = "user"
       /\ Last(messages').role = "assistant"
       /\ StartsWithError(Last(messages').content)
       /\ reached' = "chat"]_vars

C3_Witness ==
  /\ pc = "idle" /\ Len(messages) = 4
  /\ StartsWithError(messages[2].content)
  /\ Failed(response) /\ response.choices = <<>> /\ ~response.raised
  /\ StartsWithError(messages[4].content)

\* C4: a click on Clear Chat leaves the turn sequence empty and pdf_text as
\* it was before the click, also with a file still in the uploader.
C4_ClearKeepsDocument ==
  [][trigger' = "clear" => (messages' = <<>> /\ pdf_text' = pdf_text)]_vars

C4_Witness ==
  /\ trigger = "clear" /\ messages = <<>> /\ pdf_text # <<>>
  /\ reached = "chat"

\* C5: the temporary file of an extraction never outlives the call.
C5_TempFileAlwaysDeleted == tmp_file_exists = FALSE

\* C6: a PDF with no page, or whose pages all yield empty text, extracts to
\* the empty string without raising, and the session keeps awaiting a document.
C6_EmptyPdfYieldsEmptyText ==
  AllPagesEmpty(uploaded_file) =>
    (pdf_text = <<>> /\ reached \in {"no_token", "no_pdf"})

\* C7: a PDF whose N pages all yield non-empty text extracts to the page
\* texts in page order with a line break between consecutive pages only.
C7_PagesJoinedByLineBreaks ==
  AllPagesText(uploaded_file) => pdf_text = JoinLines(uploaded_file.pages)

\* C8: each question issues exactly one create() call, never repeated when it
\* fails, whose messages are one system turn embedding pdf_text verbatim, then
\* the stored turns in their order, then the user turn of the question.
C8_OneRequestPerQuestion ==
  [][/\ (pc = "idle" /\ trigger' = "submit") =>
          /\ pc' = "calling" /\ calls' = 1
          /\ request' =
               <<Turn("system", <<"SYS_PRE">> \o pdf_text' \o <<"SYS_POST">>)>>
                 \o messages \o <<Turn("user", user_input')>>
     /\ (pc = "calling") =>
          (pc' = "idle" /\ calls' = 1 /\ request' = request)]_vars

C8_Witness ==
  /\ pc = "idle" /\ trigger = "submit" /\ Failed(response)
  /\ calls = 1 /\ Len(request) = 4 /\ uploaded_file.present

\* C9: between runs the stored turns alternate user, assistant, ... from a
\* user turn: even length, no system turn, no two neighbours of one role.
C9_TurnsAlternate == pc = "idle" => Alternates(messages)

C9_Witness ==
  /\ pc = "idle" /\ Len(messages) = 4
  /\ response.raised /\ StartsWithError(messages[4].content)

\* C10 as stated: pdf_text becomes non-empty only through an upload whose
\* extraction succeeds with non-empty text, and never becomes empty again.
C10_ReadyNeverLeaves ==
  [][/\ (pdf_text = <<>> /\ pdf_text' # <<>>) =>
          (trigger' = "upload" /\ ExtractsNonEmpty(uploaded_file'))
     /\ (pdf_text # <<>> => pdf_text' # <<>>)]_vars

\* C10 amended: pdf_text becomes non-empty only through an upload whose
\* extraction succeeds with non-empty text, and becomes empty again only
\* through an upload of a parseable PDF without pages.
C10_ReadyLeftOnlyByEmptyUpload ==
  [][/\ (pdf_text = <<>> /\ pdf_text' # <<>>) =>
          (trigger' = "upload" /\ ExtractsNonEmpty(uploaded_file'))
     /\ (pdf_text # <<>> /\ pdf_text' = <<>>) =>
          /\ trigger' = "upload"
          /\ uploaded_file'.present /\ uploaded_file'.parseable
          /\ uploaded_file'.pages = <<>>]_vars

C10_Witness ==
  /\ pdf_text = <<>> /\ trigger = "upload" /\ messages # <<>>
  /\ uploaded_file.present /\ uploaded_file.parseable
  /\ uploaded_file.pages = <<>>
====
